---- MODULE Spec2Model ----
(***************************************************************************)
(* The layered cache of cache-service/src/cache.py: MultiLayerCache (an    *)
(* in-process dict, tier 1; Redis string keys, tier 2; SemanticCache, the  *)
(* similarity-indexed Redis hashes, tier 3) as a state machine.            *)
(*                                                                         *)
(* Python strings are sequences of one-character strings, so startswith,   *)
(* str.replace, str.lower and Redis glob matching are computed.  Every     *)
(* Redis command is one atomic step of the server; the coroutine code      *)
(* between two awaits is one atomic step of the event loop.  A step that   *)
(* touches only the coroutine's own locals is merged with the server step  *)
(* before it; a step that reads or writes l1_cache is a step of its own.   *)
(***************************************************************************)
EXTENDS Integers, Sequences, FiniteSets, Bags, TLC

VARIABLES
    l1_cache,   \* MultiLayerCache.l1_cache: dict, key -> Python value
    redis,      \* the Redis key space: key -> string entry or hash entry
    now,        \* the clock, in seconds
    pc,         \* per caller: where its coroutine is suspended
    frame,      \* per caller: arguments and locals of its call
    ret,        \* per caller: what its last completed call returned
    ncalls,     \* number of calls started so far
    budget,     \* number of calls the run may start
    cursor_repr \* how the Redis client hands back a SCAN cursor: "str" or "int"

vars == <<l1_cache, redis, now, pc, frame, ret, ncalls, budget, cursor_repr>>

----------------------------------------------------------------------------
(* Bounds of the model *)

\* number of calls one run starts: sequential caller / concurrent callers
MaxCalls == 3
MaxConcCalls == 2
\* number of calls of a run in which a get races an invalidate
MaxRaceCalls == 3
\* seconds the clock may advance
MaxTime == 1
\* entries one SCAN reply carries (Redis treats count=50 as a hint)
ScanPage == 1

(* Program constants *)

\* ttl: int = 3600, the default of get, set and cache_response
DefaultTTL == 3600
\* LocalHashEmbeddingProvider(dim=128)
Dim == 128
\* threshold=0.85, as the fraction ThresholdNum / ThresholdDen
ThresholdNum == 85
ThresholdDen == 100

\* Python's None, where a Python value or a reply is expected
None == "None"

\* an absent str argument (semantic_key, pattern): None or "".  The code only
\* tests the truth value of these arguments, and both are falsy.
NoStr == <<>>

Callers == {"c1", "c2"}

----------------------------------------------------------------------------
(* Inputs *)

\* exact cache keys "a:1", "a:2", "b:1"
Keys == { <<"a", ":", "1">>, <<"a", ":", "2">>, <<"b", ":", "1">> }

\* "a:1", "b:1"
TwoKeys == { <<"a", ":", "1">>, <<"b", ":", "1">> }

\* invalidation patterns: None, "*", "a:*", "b:*"
Patterns == { NoStr, <<"*">>, <<"a", ":", "*">>, <<"b", ":", "*">> }

\* semantic keys (query texts): "Hi", "hi", "yo"
Queries == { <<"H", "i">>, <<"h", "i">>, <<"y", "o">> }

\* ttl arguments
TTLs == {1, DefaultTTL}

\* query texts for SemanticCache called directly: the empty text, and texts
\* whose embeddings are at similarity 2/sqrt(6) and 4/sqrt(18) of one another
SimQueries == {<<>>, <<"a", "a">>, <<"a", "a", "a">>, <<"a", "a", "a", "a">>}

----------------------------------------------------------------------------
(* Python values and their JSON encoding *)

\* the Python values the model stores, named by their literals
VParis == "{'text': 'Paris'}"
VEmpty == "{}"
VIntKey == "{1: 'Paris'}"
VStrKey == "{'1': 'Paris'}"

PyValues == {VParis, VEmpty, VIntKey, VStrKey}

\* values callers pass to set and compute functions return
InputValues == {VEmpty, VIntKey}

\* bool(v) of a Python value or of a reply: None, the empty dict and the
\* empty bytes are falsy
Truthy(v) == v \notin {None, VEmpty, ""}

\* bool(s) of a str argument
TruthyStr(s) == s # NoStr

\* json.dumps(value, default=str): dict keys that are ints become strings
JsonDumps(v) ==
    CASE v = VParis  -> "{\"text\": \"Paris\"}"
      [] v = VEmpty  -> "{}"
      [] v = VIntKey -> "{\"1\": \"Paris\"}"
      [] v = VStrKey -> "{\"1\": \"Paris\"}"
      [] v = None    -> "null"

\* json.loads(text)
JsonLoads(t) ==
    CASE t = "{\"text\": \"Paris\"}" -> VParis
      [] t = "{}"                    -> VEmpty
      [] t = "{\"1\": \"Paris\"}"    -> VStrKey
      [] t = "null"                  -> None

----------------------------------------------------------------------------
(* Strings *)

\* str.lower() on the characters the model uses
LowerChar(c) ==
    CASE c = "H" -> "h"
      [] c = "I" -> "i"
      [] c = "Y" -> "y"
      [] c = "O" -> "o"
      [] OTHER   -> c

Lower(s) == [i \in 1..Len(s) |-> LowerChar(s[i])]

\* k.startswith(prefix)
StartsWith(k, prefix) ==
    /\ Len(prefix) <= Len(k)
    /\ \A i \in 1..Len(prefix) : k[i] = prefix[i]

\* pattern.replace("*", "")
RECURSIVE RemoveStars(_)
RemoveStars(s) ==
    IF s = <<>> THEN <<>>
    ELSE IF Head(s) = "*" THEN RemoveStars(Tail(s))
    ELSE <<Head(s)>> \o RemoveStars(Tail(s))

\* "*" in pattern
HasStar(s) == \E i \in 1..Len(s) : s[i] = "*"

\* Redis glob matching of KEYS and SCAN MATCH: * matches any run of
\* characters, every other character of the model's alphabet matches itself
RECURSIVE GlobMatch(_, _)
GlobMatch(pat, s) ==
    IF pat = <<>> THEN s = <<>>
    ELSE IF Head(pat) = "*"
         THEN \/ GlobMatch(Tail(pat), s)
              \/ (s # <<>> /\ GlobMatch(pat, Tail(s)))
    ELSE /\ s # <<>>
         /\ Head(s) = Head(pat)
         /\ GlobMatch(Tail(pat), Tail(s))

----------------------------------------------------------------------------
(* Embeddings and similarity *)

\* int(hashlib.sha256(ngram.encode()).hexdigest(), 16), reduced mod 2^16,
\* for the n-grams of the model's query texts
Sha256Int(ngram) ==
    CASE ngram = <<"h", "i">> -> 31396
      [] ngram = <<"i">>      -> 26071
      [] ngram = <<"y", "o">> -> 51105
      [] ngram = <<"o">>      -> 62162
      [] ngram = <<"a", "a", "a">> -> 59632
      [] ngram = <<"a", "a">> -> 54534
      [] ngram = <<"a">>      -> 18619

\* s[i:i+3] with i counted from 1
Ngram(s, i) == SubSeq(s, i, IF i + 2 <= Len(s) THEN i + 2 ELSE Len(s))

\* LocalHashEmbeddingProvider.encode: the bucket counts, as a bag of bucket
\* indexes.  The code then divides the vector by its norm when the norm is
\* positive; the bag holds the numerators and NormSq the squared divisor, so a
\* stored vector v stands for v / sqrt(NormSq(v)) (or the zero vector).
RECURSIVE EncodeFrom(_, _)
EncodeFrom(s, i) ==
    IF i > Len(s) THEN EmptyBag
    ELSE SetToBag({Sha256Int(Ngram(s, i)) % Dim}) (+) EncodeFrom(s, i + 1)

Encode(text) == EncodeFrom(Lower(text), 1)

RECURSIVE SumOver(_, _)
SumOver(S, f) ==
    IF S = {} THEN 0
    ELSE LET x == CHOOSE y \in S : TRUE
         IN  f[x] + SumOver(S \ {x}, f)

\* squared norm of the bucket counts
NormSq(v) == SumOver(DOMAIN v, [i \in DOMAIN v |-> v[i] * v[i]])

\* dot product of the bucket counts
RawDot(a, b) ==
    LET common == DOMAIN a \cap DOMAIN b
    IN  SumOver(common, [i \in common |-> a[i] * b[i]])

\* similarity = np.dot(q, c) / (norm(q) * norm(c)) of the normalised vectors,
\* kept exact as the pair <<n, d>> standing for n / sqrt(d) (n >= 0: counts
\* are non-negative).  A zero vector gives 0 / 0, which numpy evaluates to
\* nan without raising: the pair <<0, 0>>.
Similarity(q, c) ==
    IF NormSq(q) = 0 \/ NormSq(c) = 0 THEN <<0, 0>>
    ELSE <<RawDot(q, c), NormSq(q) * NormSq(c)>>

IsNan(x) == x[2] = 0

\* x > y for two similarities; every comparison with nan is False
SimGreater(x, y) ==
    /\ ~IsNan(x) /\ ~IsNan(y)
    /\ x[1] * x[1] * y[2] > y[1] * y[1] * x[2]

\* similarity > self.threshold
AboveThreshold(x) == SimGreater(x, <<ThresholdNum, ThresholdDen * ThresholdDen>>)

\* best_similarity = 0
ZeroSim == <<0, 1>>

----------------------------------------------------------------------------
(* Tier-3 record keys *)

SemanticPrefix == <<"s", "e", "m", "a", "n", "t", "i", "c", ":">>

\* hashlib.sha256(json.dumps({"query": query, "context": ""},
\* sort_keys=True).encode()).hexdigest(), its first four characters
Sha256Hex(query) ==
    CASE query = <<"H", "i">> -> <<"b", "4", "a", "d">>
      [] query = <<"h", "i">> -> <<"e", "2", "5", "e">>
      [] query = <<"y", "o">> -> <<"5", "d", "b", "5">>
      [] query = <<>>         -> <<"0", "8", "6", "d">>
      [] query = <<"a", "a">> -> <<"7", "d", "d", "0">>
      [] query = <<"a", "a", "a">> -> <<"b", "4", "d", "0">>
      [] query = <<"a", "a", "a", "a">> -> <<"2", "5", "9", "a">>

\* SemanticCache._cache_key(query, context="")
CacheKey(query) == SemanticPrefix \o Sha256Hex(query)

----------------------------------------------------------------------------
(* The Redis key space *)

NoExpiry == -1

StringEntry(text, exp) == [type |-> "string", val |-> text, exp |-> exp]

HashEntry(fields, exp) == [type |-> "hash", val |-> fields, exp |-> exp]

\* a dict / key space m with m[k] = v
Put(m, k, v) == [x \in DOMAIN m \cup {k} |-> IF x = k THEN v ELSE m[x]]

\* a dict / key space m without the keys of K
Drop(m, K) == [x \in DOMAIN m \ K |-> m[x]]

EmptyMap == [x \in {} |-> None]

\* the order in which SCAN walks the key space (the server's hash table)
ScanOrder ==
    << <<"a", ":", "1">>, CacheKey(<<"H", "i">>), <<"a", ":", "2">>,
       CacheKey(<<"h", "i">>), <<"b", ":", "1">>, CacheKey(<<"y", "o">>),
       CacheKey(<<"a", "a", "a">>), CacheKey(<<>>), CacheKey(<<"a", "a", "a", "a">>),
       CacheKey(<<"a", "a">>) >>

\* SCAN cursor MATCH pattern COUNT ScanPage: the positions after the cursor
\* that hold a matching key
ScanCandidates(cursor, pattern) ==
    { i \in 1..Len(ScanOrder) :
        /\ i > cursor
        /\ ScanOrder[i] \in DOMAIN redis
        /\ GlobMatch(pattern, ScanOrder[i]) }

RECURSIVE FirstN(_, _)
FirstN(S, n) ==
    IF n = 0 \/ S = {} THEN <<>>
    ELSE LET m == CHOOSE x \in S : \A y \in S : x <= y
         IN  <<m>> \o FirstN(S \ {m}, n - 1)

\* the reply of SCAN: <<next cursor, keys>>; cursor 0 when the walk is over
ScanReply(cursor, pattern) ==
    LET cand == ScanCandidates(cursor, pattern)
        page == FirstN(cand, ScanPage)
    IN  << IF Cardinality(cand) <= ScanPage THEN 0 ELSE page[Len(page)],
           [i \in 1..Len(page) |-> ScanOrder[page[i]]] >>

\* a KEYS that lists string keys only
KeysReplyStringsOnly(pattern) ==
    { k \in DOMAIN redis : redis[k].type = "string" /\ GlobMatch(pattern, k) }

\* KEYS pattern
KeysReply(pattern) == { k \in DOMAIN redis : GlobMatch(pattern, k) }

----------------------------------------------------------------------------
(* Callers *)

\* arguments and locals of a call that has not started
IdleFrame ==
    [ op |-> "none",
      key |-> NoStr, value |-> None, ttl |-> 0, sem |-> NoStr, fn |-> FALSE,
      pattern |-> NoStr,
      set_sem |-> NoStr,              \* semantic_key of the set in progress
      in_get |-> FALSE,               \* the set in progress was called by get
      result |-> None,                \* what get returns after its set
      reply |-> None,                 \* the reply of redis.get
      query_embedding |-> EmptyBag, cursor |-> 0, keys |-> <<>>,
      best_match |-> None, best_similarity |-> ZeroSim,
      timestamp |-> 0,
      del_keys |-> {},
      tiers |-> {},                   \* the tiers this call has consulted
      ncompute |-> 0,                 \* times this call has invoked query_fn
      id |-> 0,                       \* the number of this call
      called_at |-> 0,                \* when this call started
      done_at |-> 0,                  \* when this call returned
      before_l1 |-> EmptyMap,         \* tier 1 when this call started
      before_redis |-> EmptyMap,      \* Redis when this call started
      prev_set |-> FALSE,             \* get: see PrevSet
      prev_value |-> None,
      prev_expired |-> FALSE ]

\* the frame of a call that starts now
NewFrame(op) ==
    [IdleFrame EXCEPT !.op = op, !.id = ncalls + 1, !.called_at = now,
                      !.before_l1 = l1_cache, !.before_redis = redis]

\* the caller's previous call was a set of this key that returned
PrevSet(p, key) ==
    /\ pc[p] = "done"
    /\ frame[p].op = "set"
    /\ frame[p].key = key
    /\ ret[p].exc = None

\* get(key), with what it observes of the set before it: whether the caller's
\* previous call was set(key, value, ttl), that value, and whether ttl seconds
\* have passed since that set returned
GetFrame(p, key) ==
    IF PrevSet(p, key)
    THEN [NewFrame("get") EXCEPT !.key = key, !.prev_set = TRUE,
                                 !.prev_value = frame[p].value,
                                 !.prev_expired = (now >= frame[p].done_at + frame[p].ttl)]
    ELSE [NewFrame("get") EXCEPT !.key = key]

Returns(v) == [exc |-> None, val |-> v]

Raises(e) == [exc |-> e, val |-> None]

NoReturn == [exc |-> None, val |-> "-"]

CanCall(p) == pc[p] \in {"idle", "done"} /\ ncalls < budget

\* the state after MultiLayerCache(): tier 1 empty, against an empty Redis
InitOf(calls) ==
    /\ budget = calls
    /\ cursor_repr \in {"str", "int"}
    /\ l1_cache = EmptyMap
    /\ redis = EmptyMap
    /\ now = 0
    /\ pc = [p \in Callers |-> "idle"]
    /\ frame = [p \in Callers |-> IdleFrame]
    /\ ret = [p \in Callers |-> NoReturn]
    /\ ncalls = 0

\* the caller's call ends: it returns or raises r
Finish(p, f, r) ==
    /\ pc' = [pc EXCEPT ![p] = "done"]
    /\ frame' = [frame EXCEPT ![p] = [f EXCEPT !.done_at = now]]
    /\ ret' = [ret EXCEPT ![p] = r]

\* the caller's coroutine suspends at label with locals f
Suspend(p, f, label) ==
    /\ pc' = [pc EXCEPT ![p] = label]
    /\ frame' = [frame EXCEPT ![p] = f]
    /\ UNCHANGED ret

----------------------------------------------------------------------------
(* MultiLayerCache.set and SemanticCache.cache_response *)

\* a set that skips the tier-1 write
SetStartSkipsL1(p, f, value, set_sem) ==
    /\ l1_cache' = l1_cache
    /\ Suspend(p, [f EXCEPT !.value = value, !.set_sem = set_sem], "set_setex")

\* set up to its first await: the tier-1 write, then SETEX is sent
SetStart(p, f, value, set_sem) ==
    /\ l1_cache' = Put(l1_cache, f.key, value)
    /\ Suspend(p, [f EXCEPT !.value = value, !.set_sem = set_sem], "set_setex")

\* set returns; when get called it, get returns its result
SetReturn(p, f) ==
    Finish(p, f, IF f.in_get THEN Returns(f.result) ELSE Returns(None))

\* set(key, value, ttl, semantic_key) is called
SetCall(p, key, value, ttl, sem) ==
    /\ CanCall(p)
    /\ ncalls' = ncalls + 1
    /\ SetStart(p, [NewFrame("set") EXCEPT !.key = key, !.ttl = ttl, !.sem = sem],
                value, sem)
    /\ UNCHANGED <<redis, now, budget, cursor_repr>>

\* the server runs SETEX key ttl json.dumps(value, default=str); set resumes:
\* with a semantic_key it enters cache_response, which builds cache_data and
\* sends HSET
RedisSetex(p) ==
    /\ pc[p] = "set_setex"
    /\ LET f == frame[p]
       IN  /\ redis' = Put(redis, f.key, StringEntry(JsonDumps(f.value), now + f.ttl))
           /\ IF TruthyStr(f.set_sem)
              THEN Suspend(p, [f EXCEPT !.timestamp = now], "sem_hset")
              ELSE SetReturn(p, f)
    /\ UNCHANGED <<l1_cache, now, ncalls, budget, cursor_repr>>

\* cache_data of cache_response
CacheData(f) ==
    [ response |-> JsonDumps(f.value),
      embedding |-> Encode(f.set_sem),
      query |-> f.set_sem,
      timestamp |-> f.timestamp ]

\* the server runs HSET cache_key cache_data: a new hash has no expiry, an
\* existing hash keeps its expiry, a key of another type is an error
RedisHSet(p) ==
    /\ pc[p] = "sem_hset"
    /\ LET f == frame[p]
           k == CacheKey(f.set_sem)
       IN  IF k \in DOMAIN redis /\ redis[k].type # "hash"
           THEN /\ Finish(p, f, Raises("WRONGTYPE"))
                /\ UNCHANGED redis
           ELSE /\ redis' = Put(redis, k,
                        HashEntry(CacheData(f),
                                  IF k \in DOMAIN redis THEN redis[k].exp ELSE NoExpiry))
                /\ Suspend(p, f, "sem_expire")
    /\ UNCHANGED <<l1_cache, now, ncalls, budget, cursor_repr>>

\* the server runs EXPIRE cache_key ttl; cache_response and set return
RedisExpire(p) ==
    /\ pc[p] = "sem_expire"
    /\ LET f == frame[p]
           k == CacheKey(f.set_sem)
       IN  /\ redis' = IF k \in DOMAIN redis
                       THEN Put(redis, k, [redis[k] EXCEPT !.exp = now + f.ttl])
                       ELSE redis
           /\ SetReturn(p, f)
    /\ UNCHANGED <<l1_cache, now, ncalls, budget, cursor_repr>>

----------------------------------------------------------------------------
(* MultiLayerCache.get and SemanticCache.get_similar *)

\* a miss that leaves query_fn to another caller already computing the key
GetMissSingleFlight(p, f) ==
    IF f.fn /\ ~(\E q \in Callers \ {p} : pc[q] = "compute" /\ frame[q].key = f.key)
    THEN Suspend(p, [f EXCEPT !.ncompute = @ + 1], "compute")
    ELSE Finish(p, f, Returns(None))

\* get after tier 3 (or with no semantic_key): query_fn is invoked if given,
\* otherwise get returns None
GetMiss(p, f) ==
    IF f.fn
    THEN Suspend(p, [f EXCEPT !.ncompute = @ + 1], "compute")
    ELSE Finish(p, f, Returns(None))

\* get after a falsy tier-2 reply: with a semantic_key it enters get_similar,
\* which encodes the query and sends the first SCAN
GetAfterL2Miss(p, f) ==
    IF TruthyStr(f.sem)
    THEN Suspend(p, [f EXCEPT !.query_embedding = Encode(f.sem),
                              !.cursor = 0,
                              !.best_match = None,
                              !.best_similarity = ZeroSim,
                              !.tiers = @ \cup {"L3"}], "sim_scan")
    ELSE GetMiss(p, f)

\* get(key, query_fn, ttl, semantic_key) is called: the tier-1 lookup, and on a
\* miss GET is sent
GetCall(p, key, fn, ttl, sem) ==
    /\ CanCall(p)
    /\ ncalls' = ncalls + 1
    /\ LET f == [GetFrame(p, key) EXCEPT !.fn = fn, !.ttl = ttl, !.sem = sem,
                                        !.tiers = {"L1"}]
       IN  IF key \in DOMAIN l1_cache
           THEN Finish(p, f, Returns(l1_cache[key]))
           ELSE Suspend(p, [f EXCEPT !.tiers = @ \cup {"L2"}], "get_l2")
    /\ UNCHANGED <<l1_cache, redis, now, budget, cursor_repr>>

\* the server runs GET key; on a falsy reply get goes on to tier 3
RedisGet(p) ==
    /\ pc[p] = "get_l2"
    /\ LET f == frame[p]
           present == f.key \in DOMAIN redis
           reply == IF present THEN redis[f.key].val ELSE None
       IN  IF present /\ redis[f.key].type # "string"
           THEN Finish(p, f, Raises("WRONGTYPE"))
           ELSE IF Truthy(reply)
           THEN Suspend(p, [f EXCEPT !.reply = reply], "get_l2_hit")
           ELSE GetAfterL2Miss(p, f)
    /\ UNCHANGED <<l1_cache, redis, now, ncalls, budget, cursor_repr>>

\* a tier-2 hit that also renews the entry's expiry
GetL2HitRenewsTTL(p) ==
    /\ pc[p] = "get_l2_hit"
    /\ LET f == frame[p]
           deserialized == JsonLoads(f.reply)
       IN  /\ l1_cache' = Put(l1_cache, f.key, deserialized)
           /\ redis' = IF f.key \in DOMAIN redis
                       THEN Put(redis, f.key, [redis[f.key] EXCEPT !.exp = now + f.ttl])
                       ELSE redis
           /\ Finish(p, f, Returns(deserialized))
    /\ UNCHANGED <<now, ncalls, budget, cursor_repr>>

\* get resumes with a truthy tier-2 reply: it writes the deserialized value to
\* tier 1 and returns it
GetL2Hit(p) ==
    /\ pc[p] = "get_l2_hit"
    /\ LET f == frame[p]
           deserialized == JsonLoads(f.reply)
       IN  /\ l1_cache' = Put(l1_cache, f.key, deserialized)
           /\ Finish(p, f, Returns(deserialized))
    /\ UNCHANGED <<redis, now, ncalls, budget, cursor_repr>>

\* get_similar after a reply: the next HGETALL of the page, else the loop's
\* test cursor == "0".  The client is not part of the source: the loop ends
\* when the client hands the cursor back as the str "0"; a client that hands
\* it back as the int 0 (redis-py's SCAN reply is (int(cursor), keys)) makes
\* the test False, and the loop sends SCAN 0 again.
SimNext(p, f) ==
    IF f.keys # <<>> THEN Suspend(p, f, "sim_hgetall")
    ELSE IF f.cursor = 0 /\ cursor_repr = "str" THEN Suspend(p, f, "sim_done")
    ELSE Suspend(p, f, "sim_scan")

\* the server runs SCAN cursor MATCH semantic:* COUNT 50
RedisScan(p) ==
    /\ pc[p] = "sim_scan"
    /\ LET f == frame[p]
           reply == ScanReply(f.cursor, SemanticPrefix \o <<"*">>)
       IN  SimNext(p, [f EXCEPT !.cursor = reply[1], !.keys = reply[2]])
    /\ UNCHANGED <<l1_cache, redis, now, ncalls, budget, cursor_repr>>

\* a comparison in which a record as similar as the best so far replaces it
BestAfterLastWins(f, cached_data) ==
    LET similarity == Similarity(f.query_embedding, cached_data.embedding)
    IN  IF AboveThreshold(similarity) /\ ~SimGreater(f.best_similarity, similarity)
        THEN [f EXCEPT !.best_similarity = similarity,
                       !.best_match = JsonLoads(cached_data.response)]
        ELSE f

\* a comparison that takes the most similar record whatever the threshold
BestAfterNoThreshold(f, cached_data) ==
    LET similarity == Similarity(f.query_embedding, cached_data.embedding)
    IN  IF SimGreater(similarity, f.best_similarity)
        THEN [f EXCEPT !.best_similarity = similarity,
                       !.best_match = JsonLoads(cached_data.response)]
        ELSE f

\* the best match after comparing one record with the query
BestAfter(f, cached_data) ==
    LET similarity == Similarity(f.query_embedding, cached_data.embedding)
    IN  IF AboveThreshold(similarity) /\ SimGreater(similarity, f.best_similarity)
        THEN [f EXCEPT !.best_similarity = similarity,
                       !.best_match = JsonLoads(cached_data.response)]
        ELSE f

\* the server runs HGETALL key for the next key of the page; a key that is gone
\* gives an empty reply, which is skipped
RedisHGetAll(p) ==
    /\ pc[p] = "sim_hgetall"
    /\ LET f == frame[p]
           key == Head(f.keys)
           rest == [f EXCEPT !.keys = Tail(f.keys)]
       IN  IF key \notin DOMAIN redis THEN SimNext(p, rest)
           ELSE IF redis[key].type # "hash" THEN Finish(p, f, Raises("WRONGTYPE"))
           ELSE SimNext(p, BestAfter(rest, redis[key].val))
    /\ UNCHANGED <<l1_cache, redis, now, ncalls, budget, cursor_repr>>

\* get resumes with the result of get_similar: a truthy result is stored with
\* set(key, semantic_result, ttl) and returned
GetAfterSimilar(p) ==
    /\ pc[p] = "sim_done"
    /\ frame[p].op = "get"
    /\ LET f == frame[p]
           semantic_result == f.best_match
       IN  IF Truthy(semantic_result)
           THEN SetStart(p, [f EXCEPT !.in_get = TRUE, !.result = semantic_result],
                         semantic_result, NoStr)
           ELSE /\ GetMiss(p, f)
                /\ UNCHANGED l1_cache
    /\ UNCHANGED <<redis, now, ncalls, budget, cursor_repr>>

\* a compute path that stores the result without the semantic_key
ComputeDropsSemanticKey(p, result) ==
    /\ pc[p] = "compute"
    /\ LET f == frame[p]
       IN  SetStart(p, [f EXCEPT !.in_get = TRUE, !.result = result], result, NoStr)
    /\ UNCHANGED <<redis, now, ncalls, budget, cursor_repr>>

\* query_fn returns result; get stores it with set(key, result, ttl,
\* semantic_key)
Compute(p, result) ==
    /\ pc[p] = "compute"
    /\ LET f == frame[p]
       IN  SetStart(p, [f EXCEPT !.in_get = TRUE, !.result = result], result, f.sem)
    /\ UNCHANGED <<redis, now, ncalls, budget, cursor_repr>>

----------------------------------------------------------------------------
(* SemanticCache called directly: get_similar(query) and
   cache_response(query, response, ttl=ttl), with any str for query, the
   empty one included *)

\* get_similar(query) is called: it encodes the query and sends the first SCAN
GetSimilarCall(p, query) ==
    /\ CanCall(p)
    /\ ncalls' = ncalls + 1
    /\ Suspend(p, [NewFrame("get_similar") EXCEPT !.sem = query,
                                                  !.query_embedding = Encode(query),
                                                  !.tiers = {"L3"}], "sim_scan")
    /\ UNCHANGED <<l1_cache, redis, now, budget, cursor_repr>>

\* the scan loop of a direct get_similar has ended: it returns best_match
GetSimilarReturn(p) ==
    /\ pc[p] = "sim_done"
    /\ frame[p].op = "get_similar"
    /\ Finish(p, frame[p], Returns(frame[p].best_match))
    /\ UNCHANGED <<l1_cache, redis, now, ncalls, budget, cursor_repr>>

\* cache_response(query, response, ttl=ttl) is called: it builds cache_data
\* and sends HSET
CacheResponseCall(p, query, response, ttl) ==
    /\ CanCall(p)
    /\ ncalls' = ncalls + 1
    /\ Suspend(p, [NewFrame("cache_response") EXCEPT !.sem = query, !.set_sem = query,
                                                     !.value = response, !.ttl = ttl,
                                                     !.timestamp = now], "sem_hset")
    /\ UNCHANGED <<l1_cache, redis, now, budget, cursor_repr>>

----------------------------------------------------------------------------
(* MultiLayerCache.invalidate *)

\* a purge that clears tier 1 whatever the pattern
L1AfterClearsAll(pattern) == EmptyMap

\* the tier-1 purge at the end of invalidate
L1After(pattern) ==
    IF TruthyStr(pattern) /\ HasStar(pattern)
    THEN LET prefix == RemoveStars(pattern)
         IN  Drop(l1_cache, {k \in DOMAIN l1_cache : StartsWith(k, prefix)})
    ELSE EmptyMap

\* invalidate(pattern) is called: with a pattern KEYS is sent, without one
\* tier 1 is cleared at once
InvalidateCall(p, pattern) ==
    /\ CanCall(p)
    /\ ncalls' = ncalls + 1
    /\ LET f == [NewFrame("invalidate") EXCEPT !.pattern = pattern]
       IN  IF TruthyStr(pattern)
           THEN /\ Suspend(p, f, "inv_keys")
                /\ UNCHANGED l1_cache
           ELSE /\ l1_cache' = L1After(pattern)
                /\ Finish(p, f, Returns(None))
    /\ UNCHANGED <<redis, now, budget, cursor_repr>>

\* the server runs KEYS pattern; with keys found DEL is sent
RedisKeys(p) ==
    /\ pc[p] = "inv_keys"
    /\ LET f == frame[p]
           keys == KeysReply(f.pattern)
       IN  IF keys # {}
           THEN Suspend(p, [f EXCEPT !.del_keys = keys], "inv_delete")
           ELSE Suspend(p, f, "inv_l1")
    /\ UNCHANGED <<l1_cache, redis, now, ncalls, budget, cursor_repr>>

\* the server runs DEL keys
RedisDelete(p) ==
    /\ pc[p] = "inv_delete"
    /\ redis' = Drop(redis, frame[p].del_keys)
    /\ Suspend(p, frame[p], "inv_l1")
    /\ UNCHANGED <<l1_cache, now, ncalls, budget, cursor_repr>>

\* invalidate resumes: the tier-1 purge
InvalidateL1(p) ==
    /\ pc[p] = "inv_l1"
    /\ l1_cache' = L1After(frame[p].pattern)
    /\ Finish(p, frame[p], Returns(None))
    /\ UNCHANGED <<redis, now, ncalls, budget, cursor_repr>>

----------------------------------------------------------------------------
(* Failures of the collaborators.  cache.py has no try/except: an exception of
   a Redis command or of encode leaves get, set or invalidate at the await or
   call that raised it, and reaches the caller. *)

\* where a coroutine waits for the reply of a Redis command
RedisLabels ==
    {"get_l2", "sim_scan", "sim_hgetall", "set_setex", "sem_hset", "sem_expire",
     "inv_keys", "inv_delete"}

\* the store is unreachable: the awaited command raises ConnectionError
StoreUnreachable(p) ==
    /\ pc[p] \in RedisLabels
    /\ Finish(p, frame[p], Raises("ConnectionError"))
    /\ UNCHANGED <<l1_cache, redis, now, ncalls, budget, cursor_repr>>

\* what OpenAIEmbeddingProvider.encode raises: RuntimeError without an API key,
\* httpx.HTTPError when the request fails or the status is an error
ProviderErrors == {"RuntimeError", "HTTPError"}

\* get with a semantic_key: GET misses, get_similar calls encode, the provider
\* raises e
GetSimilarEncodeFails(p, e) ==
    /\ pc[p] = "get_l2"
    /\ LET f == frame[p]
           present == f.key \in DOMAIN redis
       IN  /\ present => redis[f.key].type = "string" /\ ~Truthy(redis[f.key].val)
           /\ TruthyStr(f.sem)
           /\ Finish(p, [f EXCEPT !.tiers = @ \cup {"L3"}], Raises(e))
    /\ UNCHANGED <<l1_cache, redis, now, ncalls, budget, cursor_repr>>

\* what query_fn raises when it fails
QueryFnError == "QueryFnError"

\* a failing query_fn whose get records the miss in tier 1 before the error
\* leaves it
ComputeRaisesAfterWrite(p) ==
    /\ pc[p] = "compute"
    /\ l1_cache' = Put(l1_cache, frame[p].key, None)
    /\ Finish(p, frame[p], Raises(QueryFnError))
    /\ UNCHANGED <<redis, now, ncalls, budget, cursor_repr>>

\* query_fn raises: get is left at `result = await query_fn()`, before its set
ComputeRaises(p) ==
    /\ pc[p] = "compute"
    /\ Finish(p, frame[p], Raises(QueryFnError))
    /\ UNCHANGED <<l1_cache, redis, now, ncalls, budget, cursor_repr>>

\* a provider failure in set that undoes the tier-1 and tier-2 writes of the call
CacheResponseEncodeFailsRollsBack(p, e) ==
    /\ pc[p] = "set_setex"
    /\ LET f == frame[p]
       IN  /\ TruthyStr(f.set_sem)
           /\ redis' = Drop(redis, {f.key})
           /\ l1_cache' = Drop(l1_cache, {f.key})
           /\ Finish(p, f, Raises(e))
    /\ UNCHANGED <<now, ncalls, budget, cursor_repr>>

\* set with a semantic_key: SETEX is run, cache_response calls encode, the
\* provider raises e
CacheResponseEncodeFails(p, e) ==
    /\ pc[p] = "set_setex"
    /\ LET f == frame[p]
       IN  /\ TruthyStr(f.set_sem)
           /\ redis' = Put(redis, f.key, StringEntry(JsonDumps(f.value), now + f.ttl))
           /\ Finish(p, f, Raises(e))
    /\ UNCHANGED <<l1_cache, now, ncalls, budget, cursor_repr>>

----------------------------------------------------------------------------
(* Time *)

\* a second that also takes from tier 1 the keys whose tier-2 expiry has come
TickExpiresL1 ==
    /\ now < MaxTime
    /\ now' = now + 1
    /\ redis' = Drop(redis, {k \in DOMAIN redis :
                                redis[k].exp # NoExpiry /\ redis[k].exp <= now + 1})
    /\ l1_cache' = Drop(l1_cache, {k \in DOMAIN l1_cache \cap DOMAIN redis :
                                redis[k].exp # NoExpiry /\ redis[k].exp <= now + 1})
    /\ UNCHANGED <<pc, frame, ret, ncalls, budget, cursor_repr>>

\* a second passes; the server drops the keys whose expiry has come
Tick ==
    /\ now < MaxTime
    /\ now' = now + 1
    /\ redis' = Drop(redis, {k \in DOMAIN redis :
                                redis[k].exp # NoExpiry /\ redis[k].exp <= now + 1})
    /\ UNCHANGED <<l1_cache, pc, frame, ret, ncalls, budget, cursor_repr>>

----------------------------------------------------------------------------
(* Specifications *)

\* the steps of callers P, with arguments drawn from keys K, values V, ttls
\* T, semantic keys Q and patterns G
NextOf(P, K, V, T, Q, G) ==
    \/ \E p \in P, key \in K, fn \in BOOLEAN, sem \in Q \cup {NoStr} :
            GetCall(p, key, fn, DefaultTTL, sem)
    \/ \E p \in P, key \in K, value \in V, ttl \in T, sem \in Q \cup {NoStr} :
            SetCall(p, key, value, ttl, sem)
    \/ \E p \in P, pattern \in G : InvalidateCall(p, pattern)
    \/ \E p \in P : RedisGet(p)
    \/ \E p \in P : GetL2Hit(p)
    \/ \E p \in P : RedisScan(p)
    \/ \E p \in P : RedisHGetAll(p)
    \/ \E p \in P : GetAfterSimilar(p)
    \/ \E p \in P, result \in V : Compute(p, result)
    \/ \E p \in P : RedisSetex(p)
    \/ \E p \in P : RedisHSet(p)
    \/ \E p \in P : RedisExpire(p)
    \/ \E p \in P : RedisKeys(p)
    \/ \E p \in P : RedisDelete(p)
    \/ \E p \in P : InvalidateL1(p)
    \/ Tick

\* one caller, its calls one after the other
Init == InitOf(MaxCalls)

Next ==
    NextOf({"c1"}, TwoKeys, InputValues, TTLs, Queries,
           {NoStr, <<"*">>, <<"a", ":", "*">>})

Spec == Init /\ [][Next]_vars

\* one caller, on three keys of which two share a prefix
NextInv == NextOf({"c1"}, Keys, {VIntKey}, TTLs, {<<"H", "i">>}, Patterns)

SpecInv == Init /\ [][NextInv]_vars

\* two callers, their calls interleaved at every await
InitConc == InitOf(MaxConcCalls)

NextConc ==
    NextOf(Callers, {<<"a", ":", "1">>}, InputValues, TTLs, {<<"H", "i">>},
           {NoStr, <<"a", ":", "*">>})

SpecConc == InitConc /\ [][NextConc]_vars

\* one caller; the store may be unreachable at any command, and the embedding
\* provider may fail at any encode (a provider that returns takes Encode's
\* vector for the text)
NextFail ==
    \/ NextOf({"c1"}, {<<"a", ":", "1">>}, {VIntKey}, {DefaultTTL}, {<<"H", "i">>},
              {NoStr, <<"a", ":", "*">>})
    \/ \E p \in {"c1"} : StoreUnreachable(p)
    \/ \E p \in {"c1"}, e \in ProviderErrors : GetSimilarEncodeFails(p, e)
    \/ \E p \in {"c1"}, e \in ProviderErrors : CacheResponseEncodeFails(p, e)

SpecFail == Init /\ [][NextFail]_vars

\* one caller of SemanticCache; the server answers every command and the event
\* loop resumes every coroutine that can run
NextSim ==
    \/ \E p \in {"c1"}, query \in SimQueries : GetSimilarCall(p, query)
    \/ \E p \in {"c1"}, query \in SimQueries, response \in {VParis, VIntKey} :
            CacheResponseCall(p, query, response, DefaultTTL)
    \/ \E p \in {"c1"} : RedisScan(p)
    \/ \E p \in {"c1"} : RedisHGetAll(p)
    \/ \E p \in {"c1"} : GetSimilarReturn(p)
    \/ \E p \in {"c1"} : RedisHSet(p)
    \/ \E p \in {"c1"} : RedisExpire(p)

SpecSim ==
    /\ Init /\ [][NextSim]_vars
    /\ WF_vars(\E p \in {"c1"} : RedisScan(p))
    /\ WF_vars(\E p \in {"c1"} : RedisHGetAll(p))
    /\ WF_vars(\E p \in {"c1"} : GetSimilarReturn(p))
    /\ WF_vars(\E p \in {"c1"} : RedisHSet(p))
    /\ WF_vars(\E p \in {"c1"} : RedisExpire(p))

\* the steps of one caller of SemanticCache, with query texts Q, responses V
\* and ttls T
NextSemOf(Q, V, T) ==
    \/ \E p \in {"c1"}, query \in Q : GetSimilarCall(p, query)
    \/ \E p \in {"c1"}, query \in Q, response \in V, ttl \in T :
            CacheResponseCall(p, query, response, ttl)
    \/ \E p \in {"c1"} : RedisScan(p)
    \/ \E p \in {"c1"} : RedisHGetAll(p)
    \/ \E p \in {"c1"} : GetSimilarReturn(p)
    \/ \E p \in {"c1"} : RedisHSet(p)
    \/ \E p \in {"c1"} : RedisExpire(p)

\* one caller of SemanticCache, with two texts of the same embedding ("Hi",
\* "hi") and two close ones
NextBest ==
    NextSemOf({<<"H", "i">>, <<"h", "i">>, <<"a", "a", "a">>, <<"a", "a", "a", "a">>},
              {VParis, VIntKey}, {DefaultTTL})

SpecBest == Init /\ [][NextBest]_vars

\* one caller of SemanticCache storing with a ttl of one second, while time
\* passes and any Redis command may find the store unreachable
NextExpiry ==
    \/ NextSemOf({<<"H", "i">>, <<"y", "o">>}, {VParis, VIntKey}, {1})
    \/ \E p \in {"c1"} : StoreUnreachable(p)
    \/ Tick

SpecExpiry == Init /\ [][NextExpiry]_vars

\* one caller of SemanticCache storing with a short and with the default ttl,
\* while time passes
NextStore ==
    \/ NextSemOf({<<"H", "i">>, <<"y", "o">>}, {VParis, VIntKey}, TTLs)
    \/ Tick

SpecStore == Init /\ [][NextStore]_vars

\* one caller of MultiLayerCache whose exact keys include the key that
\* _cache_key gives the semantic key "Hi"
NextShared ==
    NextOf({"c1"}, {CacheKey(<<"H", "i">>), <<"a", ":", "1">>}, {VIntKey},
           {DefaultTTL}, {<<"H", "i">>}, {NoStr, <<"*">>})

SpecShared == Init /\ [][NextShared]_vars

\* one caller of MultiLayerCache invalidating with a pattern without star, a
\* pattern with a star inside, and a prefix with a trailing star
NextPat ==
    NextOf({"c1"}, TwoKeys, {VIntKey}, {DefaultTTL}, {<<"H", "i">>},
           {<<"a", ":", "1">>, <<"a", "*", "1">>, <<"a", ":", "*">>})

SpecPat == Init /\ [][NextPat]_vars

\* two callers on one key, one of them invalidating the key's prefix
InitRace == InitOf(MaxRaceCalls)

NextRace ==
    NextOf(Callers, {<<"a", ":", "1">>}, {VIntKey}, {DefaultTTL}, {<<"H", "i">>},
           {<<"a", ":", "*">>})

SpecRace == InitRace /\ [][NextRace]_vars

\* one caller of MultiLayerCache whose query_fn may raise
NextCompute ==
    \/ NextOf({"c1"}, {<<"a", ":", "1">>}, {VIntKey}, {1}, {<<"H", "i">>, <<"y", "o">>},
              {NoStr, <<"a", ":", "*">>})
    \/ \E p \in {"c1"} : ComputeRaises(p)

SpecCompute == Init /\ [][NextCompute]_vars

----------------------------------------------------------------------------
(* Vocabulary of the claims *)

\* caller p has completed a call of op, which returned (did not raise)
Done(p, op) == pc[p] = "done" /\ frame[p].op = op /\ ret[p].exc = None

\* the Redis keys that hold tier-3 records
IsRecord(store, k) == k \in DOMAIN store /\ store[k].type = "hash"

\* entry k of the earlier key space is in the later one as it was, or its
\* expiry has come
KeptOrExpired(earlier, later, k) ==
    \/ k \in DOMAIN later /\ later[k] = earlier[k]
    \/ k \notin DOMAIN later /\ earlier[k].exp # NoExpiry /\ earlier[k].exp <= now

----------------------------------------------------------------------------
(* C1 *)

\* C1: get consults the tiers in a fixed order.  A tier-1 hit is returned with
\* no read of tier 2 or 3; a tier-2 hit is returned with no search of tier 3;
\* tier 3 is searched only with a semantic key; query_fn is invoked at most
\* once, and only when tier 1, tier 2 and (with a semantic key) tier 3 have all
\* missed, tier 3 missing when no record is above the threshold; with no
\* query_fn and every tier missing, get returns None.
C1_LookupOrder ==
    \A p \in Callers :
        frame[p].op = "get" =>
            LET f == frame[p]
                l2_missed == "L2" \in f.tiers /\ ~Truthy(f.reply)
                            /\ pc[p] \notin {"get_l2", "get_l2_hit"}
                l3_finished == "L3" \in f.tiers
                               /\ pc[p] \notin {"sim_scan", "sim_hgetall"}
            IN  /\ "L1" \in f.tiers
                /\ (pc[p] = "done" /\ f.tiers = {"L1"}) =>
                        /\ f.key \in DOMAIN f.before_l1
                        /\ ret[p] = Returns(f.before_l1[f.key])
                /\ "L2" \in f.tiers => f.key \notin DOMAIN f.before_l1
                /\ Truthy(f.reply) =>
                        /\ "L3" \notin f.tiers
                        /\ f.ncompute = 0
                        /\ pc[p] = "done" => ret[p] = Returns(JsonLoads(f.reply))
                /\ "L3" \in f.tiers => (TruthyStr(f.sem) /\ "L2" \in f.tiers)
                /\ f.ncompute <= 1
                /\ f.ncompute = 1 =>
                        /\ f.fn
                        /\ l2_missed
                        /\ TruthyStr(f.sem) => (l3_finished /\ f.best_match = None)
                /\ (pc[p] = "done" /\ ~f.fn /\ l2_missed
                        /\ (TruthyStr(f.sem) => f.best_match = None)) =>
                        ret[p] = Returns(None)

----------------------------------------------------------------------------
(* C2 *)

\* C2: a get(K) that directly follows the caller's set(K, V, ttl) returns V, the
\* value of that most recent set, whatever the cache held before.
C2_SetThenGet ==
    \A p \in Callers :
        (Done(p, "get") /\ frame[p].prev_set) => ret[p] = Returns(frame[p].prev_value)

\* a get has returned the {1: 'Paris'} of the set before it, as the run's third
\* call: the value comes back as set, not as its JSON round trip
C2_Witness ==
    \E p \in Callers :
        /\ Done(p, "get") /\ frame[p].prev_set /\ frame[p].id = 3
        /\ frame[p].prev_value = VIntKey
        /\ ret[p] = Returns(VIntKey)
        /\ frame[p].key \in DOMAIN frame[p].before_redis

----------------------------------------------------------------------------
(* C3 *)

\* C3: after set(K, V, ttl), once ttl seconds have passed with no set of K in
\* between, get(K) with no query_fn and no semantic key returns a miss.
C3_ExpiredGetMisses ==
    \A p \in Callers :
        (Done(p, "get") /\ frame[p].prev_set /\ frame[p].prev_expired
            /\ ~frame[p].fn /\ ~TruthyStr(frame[p].sem)) =>
            ret[p] = Returns(None)

----------------------------------------------------------------------------
(* C4 *)

\* the pattern is a prefix followed by one trailing "*"
IsPrefixPattern(pattern) ==
    /\ pattern # NoStr
    /\ pattern[Len(pattern)] = "*"
    /\ ~HasStar(SubSeq(pattern, 1, Len(pattern) - 1))

PrefixOf(pattern) == SubSeq(pattern, 1, Len(pattern) - 1)

\* C4: after invalidate("prefix*") no key that starts with the prefix is in
\* tier 1 or tier 2, and every other key has the tier-1 entry and the tier-2
\* entry it had before (a tier-2 entry may have run out meanwhile); after
\* invalidate("*") tier 1 is empty.
C4_PrefixInvalidate ==
    \A p \in Callers :
        (Done(p, "invalidate") /\ IsPrefixPattern(frame[p].pattern)) =>
            LET f == frame[p]
                prefix == PrefixOf(f.pattern)
            IN  /\ \A k \in DOMAIN f.before_l1 \cup DOMAIN l1_cache :
                        IF StartsWith(k, prefix)
                        THEN k \notin DOMAIN l1_cache
                        ELSE /\ k \in DOMAIN f.before_l1 /\ k \in DOMAIN l1_cache
                             /\ l1_cache[k] = f.before_l1[k]
                /\ \A k \in DOMAIN f.before_redis \cup DOMAIN redis :
                        (k \in DOMAIN f.before_redis => f.before_redis[k].type = "string")
                        => IF StartsWith(k, prefix)
                           THEN k \notin DOMAIN redis
                           ELSE /\ k \in DOMAIN f.before_redis
                                /\ KeptOrExpired(f.before_redis, redis, k)
                /\ f.pattern = <<"*">> => l1_cache = EmptyMap

\* invalidate("a:*") has returned; "a:2" and "b:1" were in both tiers, and
\* "b:1" alone is left in both
C4_Witness ==
    \E p \in Callers :
        /\ Done(p, "invalidate") /\ frame[p].pattern = <<"a", ":", "*">>
        /\ DOMAIN frame[p].before_l1 = {<<"a", ":", "2">>, <<"b", ":", "1">>}
        /\ DOMAIN frame[p].before_l1 \subseteq DOMAIN frame[p].before_redis
        /\ DOMAIN l1_cache = {<<"b", ":", "1">>}
        /\ <<"b", ":", "1">> \in DOMAIN redis
        /\ <<"a", ":", "2">> \notin DOMAIN redis

----------------------------------------------------------------------------
(* C5 *)

----------------------------------------------------------------------------
(* C6 *)

\* C6: when get misses tiers 1 and 2 and get_similar finds a record above the
\* threshold, get returns the stored value of the best such record and has
\* written it under key to tier 1 and tier 2.
C6_SemanticHit ==
    \A p \in Callers :
        (Done(p, "get") /\ "L3" \in frame[p].tiers /\ frame[p].best_match # None) =>
            LET f == frame[p]
            IN  /\ ret[p] = Returns(f.best_match)
                /\ f.key \in DOMAIN l1_cache /\ l1_cache[f.key] = f.best_match
                /\ f.key \in DOMAIN redis
                /\ redis[f.key] = StringEntry(JsonDumps(f.best_match), redis[f.key].exp)

----------------------------------------------------------------------------
(* C7 *)

----------------------------------------------------------------------------
(* C8 *)

\* C8: when set(key, value, ttl, semantic_key) has returned, tier 1 maps key to
\* value, tier 2 maps key to the serialized value with an expiry ttl after the
\* SETEX, and tier 3 holds a record for semantic_key with the serialized value
\* and an expiry ttl after the EXPIRE exactly when semantic_key was given;
\* without semantic_key tier 3 is as it was.  An entry whose ttl has already
\* passed since the call may be gone.
C8_SetPostcondition ==
    \A p \in Callers :
        Done(p, "set") =>
            LET f == frame[p]
                k == CacheKey(f.sem)
                alive == now < f.called_at + f.ttl
                expiries == (f.called_at + f.ttl) .. (now + f.ttl)
            IN  /\ f.key \in DOMAIN l1_cache /\ l1_cache[f.key] = f.value
                /\ alive => /\ f.key \in DOMAIN redis
                            /\ redis[f.key].type = "string"
                            /\ redis[f.key].val = JsonDumps(f.value)
                            /\ redis[f.key].exp \in expiries
                /\ (TruthyStr(f.sem) /\ alive) =>
                            /\ IsRecord(redis, k)
                            /\ redis[k].val.response = JsonDumps(f.value)
                            /\ redis[k].val.query = f.sem
                            /\ redis[k].exp \in expiries
                /\ ~TruthyStr(f.sem) =>
                            /\ \A j \in DOMAIN redis : IsRecord(redis, j) => IsRecord(f.before_redis, j)
                            /\ \A j \in DOMAIN f.before_redis :
                                    IsRecord(f.before_redis, j)
                                    => KeptOrExpired(f.before_redis, redis, j)

----------------------------------------------------------------------------
(* C9 *)

\* C9: a get that missed every tier and was given query_fn invokes it once,
\* returns its result, and before returning stores the result as set does: it
\* writes tier 1 and tier 2 under key, and it goes on to write the tier-3 record
\* of semantic_key, carrying the result, exactly when semantic_key was given;
\* without semantic_key tier 3 is as it was.
C9_ComputeStores ==
    /\ [](\A p \in Callers :
            (Done(p, "get") /\ frame[p].ncompute > 0) =>
                LET f == frame[p]
                IN  /\ f.ncompute = 1
                    /\ ret[p] = Returns(f.result)
                    /\ l1_cache = Put(f.before_l1, f.key, f.result)
                    /\ f.key \in DOMAIN redis
                    /\ redis[f.key].type = "string"
                    /\ redis[f.key].val = JsonDumps(f.result)
                    /\ redis[f.key].exp \in (f.called_at + f.ttl) .. (now + f.ttl)
                    /\ ~TruthyStr(f.sem) =>
                         /\ \A j \in DOMAIN redis : IsRecord(redis, j) => IsRecord(f.before_redis, j)
                         /\ \A j \in DOMAIN f.before_redis :
                                 IsRecord(f.before_redis, j)
                                 => KeptOrExpired(f.before_redis, redis, j))
    /\ [][\A p \in Callers :
            (frame[p].op = "get" /\ frame[p].ncompute > 0) =>
                LET f == frame[p]
                    k == CacheKey(f.sem)
                IN  /\ (pc[p] = "set_setex" /\ pc'[p] # "set_setex") =>
                         IF TruthyStr(f.sem) THEN pc'[p] = "sem_hset" ELSE pc'[p] = "done"
                    /\ (pc[p] = "sem_hset" /\ pc'[p] # "sem_hset") =>
                         /\ pc'[p] = "sem_expire"
                         /\ IsRecord(redis', k)
                         /\ redis'[k].val.response = JsonDumps(f.result)
                         /\ redis'[k].val.query = f.sem
                    /\ (pc[p] = "sem_expire" /\ pc'[p] # "sem_expire") =>
                         /\ pc'[p] = "done"
                         /\ IsRecord(redis, k) => /\ IsRecord(redis', k)
                                                  /\ redis'[k].val = redis[k].val
                                                  /\ redis'[k].exp = now + f.ttl]_vars

\* a get with a semantic key has computed {1: 'Paris'} and returned it, and the
\* value is in all three tiers
C9_Witness ==
    \E p \in Callers :
        /\ Done(p, "get") /\ frame[p].ncompute = 1 /\ TruthyStr(frame[p].sem)
        /\ ret[p] = Returns(VIntKey)
        /\ frame[p].key \in DOMAIN l1_cache /\ l1_cache[frame[p].key] = VIntKey
        /\ frame[p].key \in DOMAIN redis
        /\ IsRecord(redis, CacheKey(frame[p].sem))
        /\ redis[CacheKey(frame[p].sem)].val.response = JsonDumps(VIntKey)

----------------------------------------------------------------------------
(* C10 *)

\* C10: whenever two callers are each in a get of the same key with query_fn
\* and each has finished its lookups with a miss in every tier, each of them
\* has invoked query_fn once: two invocations, neither caller waits for or
\* reuses the other's.
C10_NoSingleFlight ==
    \A p \in Callers : \A q \in Callers \ {p} :
        LET Missed(c) ==
                /\ frame[c].op = "get" /\ frame[c].fn
                /\ {"L1", "L2"} \subseteq frame[c].tiers
                /\ pc[c] \in {"compute", "set_setex", "sem_hset", "sem_expire", "done"}
                /\ frame[c].reply = None
                /\ "L3" \in frame[c].tiers => frame[c].best_match = None
                /\ ret[c].exc = None
        IN  (Missed(p) /\ Missed(q) /\ frame[p].key = frame[q].key) =>
                frame[p].ncompute = 1 /\ frame[q].ncompute = 1

\* both callers have missed on "a:1" and both are inside query_fn at once
C10_Witness ==
    /\ \A p \in Callers : /\ pc[p] = "compute" /\ frame[p].ncompute = 1
                          /\ frame[p].key = <<"a", ":", "1">>
    /\ l1_cache = EmptyMap /\ redis = EmptyMap

----------------------------------------------------------------------------
(* C11 *)

\* C11: when the store is unreachable during get, no error reaches the caller:
\* a get that has ended has returned (the result of query_fn, or None), it has
\* not raised the store's ConnectionError.
C11_StoreDownGetReturns ==
    \A p \in Callers :
        (pc[p] = "done" /\ frame[p].op = "get") =>
            /\ ret[p].exc # "ConnectionError"
            /\ (frame[p].tiers = {"L1", "L2"} /\ frame[p].reply = None) =>
                    ret[p].val = (IF frame[p].fn THEN frame[p].result ELSE None)

----------------------------------------------------------------------------
(* C12 *)

\* C12: when a tier-2 or tier-3 write fails because the store is unreachable,
\* set still completes without an error to the caller once tier 1 maps key to
\* value.
C12_StoreDownSetReturns ==
    \A p \in Callers :
        (/\ pc[p] = "done" /\ frame[p].op = "set"
         /\ frame[p].key \in DOMAIN l1_cache
         /\ l1_cache[frame[p].key] = frame[p].value)
        => ret[p].exc # "ConnectionError"

----------------------------------------------------------------------------
(* C13 *)

\* C13: when the embedding provider cannot produce a vector, a get with a
\* semantic_key takes the semantic lookup as no match: the provider's failure
\* is never the outcome of the get.
C13_ProviderDownGetReturns ==
    \A p \in Callers :
        (pc[p] = "done" /\ frame[p].op = "get") => ret[p].exc \notin ProviderErrors

----------------------------------------------------------------------------
(* C14 *)

\* C14: when the embedding provider cannot produce a vector, set with a
\* semantic_key completes the tier-1 and tier-2 writes, skips the tier-3 write
\* and returns without raising: the provider's failure is never the outcome of
\* the set.
C14_ProviderDownSetReturns ==
    \A p \in Callers :
        (pc[p] = "done" /\ frame[p].op = "set") => ret[p].exc \notin ProviderErrors

----------------------------------------------------------------------------
(* C15 *)

\* C15: invalidate with an empty or absent pattern ends with an InvalidPattern
\* error and removes nothing: tier 1 is as it was when invalidate was called,
\* and so is every Redis entry (unless its expiry has come).
C15_EmptyPatternRejected ==
    \A p \in Callers :
        (pc[p] = "done" /\ frame[p].op = "invalidate" /\ ~TruthyStr(frame[p].pattern)) =>
            /\ ret[p].exc = "InvalidPattern"
            /\ l1_cache = frame[p].before_l1
            /\ \A k \in DOMAIN frame[p].before_redis :
                    KeptOrExpired(frame[p].before_redis, redis, k)

----------------------------------------------------------------------------
(* C16 *)

\* C16: invalidate(pattern) returns the number of entries it removed: what it
\* returns is not None, and it is the number of Redis keys it deleted.
C16_ReturnsCount ==
    \A p \in Callers :
        Done(p, "invalidate") =>
            /\ ret[p].val # None
            /\ ret[p].val = Cardinality(frame[p].del_keys)

----------------------------------------------------------------------------
(* C17 *)

\* C17: what get_similar returns, if not None, is the stored value of a record
\* whose similarity to the query is strictly greater than the threshold; when
\* no record of the store is above the threshold it returns None.
C17_AboveThresholdOnly ==
    \A p \in Callers :
        Done(p, "get_similar") =>
            LET f == frame[p]
                recs == {k \in DOMAIN f.before_redis : IsRecord(f.before_redis, k)}
                sim(k) == Similarity(Encode(f.sem), f.before_redis[k].val.embedding)
                above == {k \in recs : AboveThreshold(sim(k))}
            IN  /\ ret[p].val # None =>
                     \E k \in above :
                         ret[p].val = JsonLoads(f.before_redis[k].val.response)
                /\ above = {} => ret[p].val = None
                /\ f.best_match # None => AboveThreshold(f.best_similarity)

\* get_similar("aaa") has returned {'1': 'Paris'}, the value of the record of
\* "aaaa" (similarity 4/sqrt(18), above 0.85), with the record of "aa"
\* (similarity 2/sqrt(6), below 0.85) holding another value
C17_Witness ==
    \E p \in Callers :
        /\ Done(p, "get_similar") /\ frame[p].sem = <<"a", "a", "a">>
        /\ IsRecord(frame[p].before_redis, CacheKey(<<"a", "a">>))
        /\ frame[p].before_redis[CacheKey(<<"a", "a">>)].val.response = JsonDumps(VParis)
        /\ IsRecord(frame[p].before_redis, CacheKey(<<"a", "a", "a", "a">>))
        /\ ret[p] = Returns(VStrKey)

----------------------------------------------------------------------------
(* C18 *)

\* C18: whenever get_similar compares a record with the query and the query
\* embedding or the stored embedding has zero norm, the similarity it computes
\* is 0.0, with no division by zero, and the record is not selected; the
\* similarity of a non-zero vector with itself is 1.0.
C18_ZeroNormIsZero ==
    \A p \in Callers :
        (/\ pc[p] = "sim_hgetall"
         /\ IsRecord(redis, Head(frame[p].keys))) =>
            LET f == frame[p]
                c == redis[Head(f.keys)].val
                similarity == Similarity(f.query_embedding, c.embedding)
            IN  /\ (NormSq(f.query_embedding) = 0 \/ NormSq(c.embedding) = 0) =>
                     /\ ~IsNan(similarity) /\ similarity[1] = 0
                     /\ BestAfter(f, c) = f
                /\ (NormSq(c.embedding) # 0 /\ f.query_embedding = c.embedding) =>
                     similarity[1] * similarity[1] = similarity[2]

----------------------------------------------------------------------------
(* C19 *)

----------------------------------------------------------------------------
(* C20 *)

\* C20: get_similar terminates: a call that is about to send SCAN over a store
\* that holds a record returns in the end, the loop stopping once the store
\* reports the cursor exhausted.
C20_ScanTerminates ==
    \A p \in Callers :
        (/\ frame[p].op = "get_similar" /\ pc[p] = "sim_scan"
         /\ \E k \in DOMAIN redis : IsRecord(redis, k))
        ~> (pc[p] = "done")

----------------------------------------------------------------------------
(* C21 *)

\* C21: when some record is above the threshold, get_similar returns the stored
\* value of the record of highest similarity, and of the records that share
\* that similarity the one that comes first in scan order.
C21_BestFirstInScanOrder ==
    \A p \in Callers :
        Done(p, "get_similar") =>
            LET f == frame[p]
                recs == {k \in DOMAIN f.before_redis : IsRecord(f.before_redis, k)}
                sim(k) == Similarity(Encode(f.sem), f.before_redis[k].val.embedding)
                above == {k \in recs : AboveThreshold(sim(k))}
                pos(k) == CHOOSE i \in 1..Len(ScanOrder) : ScanOrder[i] = k
                best(k) == \A j \in above :
                               /\ ~SimGreater(sim(j), sim(k))
                               /\ ~SimGreater(sim(k), sim(j)) => pos(k) <= pos(j)
            IN  above # {} =>
                    \E k \in above :
                        /\ best(k)
                        /\ ret[p].val = JsonLoads(f.before_redis[k].val.response)

\* get_similar("hi") has returned {'text': 'Paris'}, the value of the record of
\* "Hi", which the scan meets before the record of "hi" holding {'1': 'Paris'};
\* both are at similarity 1
C21_Witness ==
    \E p \in Callers :
        /\ Done(p, "get_similar") /\ frame[p].sem = <<"h", "i">>
        /\ IsRecord(frame[p].before_redis, CacheKey(<<"H", "i">>))
        /\ frame[p].before_redis[CacheKey(<<"H", "i">>)].val.response = JsonDumps(VParis)
        /\ IsRecord(frame[p].before_redis, CacheKey(<<"h", "i">>))
        /\ frame[p].before_redis[CacheKey(<<"h", "i">>)].val.response = JsonDumps(VIntKey)
        /\ ret[p] = Returns(VParis)

----------------------------------------------------------------------------
(* C22 *)

\* C22: when the tier-3 write of set fails (encode raises, or HSET or EXPIRE
\* finds the store unreachable), the call leaves tier 1 mapping key to value
\* and tier 2 mapping key to the serialized value with the expiry of this call:
\* the failure undoes neither write.
C22_Tier3FailureKeepsTiers ==
    [][\A p \in Callers :
          (/\ frame[p].op = "set" /\ pc'[p] = "done" /\ ret'[p].exc # None
           /\ \/ pc[p] \in {"sem_hset", "sem_expire"}
              \/ pc[p] = "set_setex" /\ ret'[p].exc \in ProviderErrors) =>
              LET f == frame[p]
              IN  /\ f.key \in DOMAIN l1_cache' /\ l1_cache'[f.key] = f.value
                  /\ f.key \in DOMAIN redis'
                  /\ redis'[f.key].type = "string"
                  /\ redis'[f.key].val = JsonDumps(f.value)
                  /\ redis'[f.key].exp \in (f.called_at + f.ttl) .. (now + f.ttl)
      ]_vars

\* a set with a semantic key has ended with the provider's error, with no
\* tier-3 record written and the value in tier 1 and tier 2
C22_Witness ==
    \E p \in Callers :
        /\ pc[p] = "done" /\ frame[p].op = "set" /\ ret[p].exc \in ProviderErrors
        /\ ~IsRecord(redis, CacheKey(frame[p].sem))
        /\ frame[p].key \in DOMAIN l1_cache /\ l1_cache[frame[p].key] = VIntKey
        /\ frame[p].key \in DOMAIN redis
        /\ redis[frame[p].key].val = JsonDumps(VIntKey)

----------------------------------------------------------------------------
(* C23 *)

\* C23: a record stored with ttl 1 is not returned by get_similar once that
\* second has elapsed: a record that get_similar returns was, when get_similar
\* was called, either younger than its ttl (by its timestamp) or still under
\* the expiry that cache_response's EXPIRE gave it.
C23_ExpiredNeverReturned ==
    \A p \in Callers :
        (Done(p, "get_similar") /\ ret[p].val # None) =>
            \E k \in DOMAIN frame[p].before_redis :
                /\ IsRecord(frame[p].before_redis, k)
                /\ JsonLoads(frame[p].before_redis[k].val.response) = ret[p].val
                /\ \/ frame[p].called_at < frame[p].before_redis[k].val.timestamp + 1
                   \/ frame[p].before_redis[k].exp # NoExpiry

----------------------------------------------------------------------------
(* C24 *)

\* C24: when cache_response(query, response, ttl) has returned and its ttl has
\* not passed, the key space holds under _cache_key(query) one record with the
\* response, embedding and query of this store and an expiry ttl after it,
\* whatever was stored under that key before; the records of other queries
\* are as they were, or their expiry has come.
C24_LaterStoreWins ==
    \A p \in Callers :
        (Done(p, "cache_response") /\ now < frame[p].called_at + frame[p].ttl) =>
            LET f == frame[p]
                k == CacheKey(f.set_sem)
            IN  /\ IsRecord(redis, k)
                /\ redis[k].val.response = JsonDumps(f.value)
                /\ redis[k].val.embedding = Encode(f.set_sem)
                /\ redis[k].val.query = f.set_sem
                /\ redis[k].exp \in (f.called_at + f.ttl) .. (now + f.ttl)
                /\ \A j \in DOMAIN f.before_redis \ {k} :
                        KeptOrExpired(f.before_redis, redis, j)

----------------------------------------------------------------------------
(* C25 *)

\* C25: exact keys and tier-3 records do not meet in the key space: every
\* entry under the "semantic:" prefix, which get_similar scans, is a record
\* (set never puts a string there), and no call ends with the type error of a
\* GET that met a record or of an HGETALL or HSET that met an exact-key entry.
C25_DisjointKeySpaces ==
    /\ \A k \in DOMAIN redis : StartsWith(k, SemanticPrefix) => IsRecord(redis, k)
    /\ \A p \in Callers : pc[p] = "done" => ret[p].exc # "WRONGTYPE"

----------------------------------------------------------------------------
(* C26 *)

\* C26: when invalidate(pattern) with a non-empty pattern has returned, a key
\* that was in tier 1 when it was called is gone from tier 1 exactly when it
\* matches the pattern as KEYS matched it against tier 2.
C26_Tier1FollowsPattern ==
    \A p \in Callers :
        (Done(p, "invalidate") /\ TruthyStr(frame[p].pattern)) =>
            \A k \in DOMAIN frame[p].before_l1 :
                k \in DOMAIN l1_cache <=> ~GlobMatch(frame[p].pattern, k)

----------------------------------------------------------------------------
(* C27 *)

\* C27: when nothing is in flight, invalidate("prefix*") was the last call to
\* start and has returned, and the other caller's last call is a get that
\* started before it and did not run query_fn (so no set of any key started
\* after the invalidate did), no key that starts with the prefix is in tier 1.
C27_NoRepopulation ==
    \A p \in Callers : \A q \in Callers \ {p} :
        (/\ \A r \in Callers : pc[r] \in {"idle", "done"}
         /\ Done(p, "invalidate") /\ IsPrefixPattern(frame[p].pattern)
         /\ Done(q, "get") /\ frame[q].id < frame[p].id
         /\ frame[q].ncompute = 0) =>
            \A k \in DOMAIN l1_cache :
                ~StartsWith(k, PrefixOf(frame[p].pattern))

----------------------------------------------------------------------------
(* C28 *)

\* C28: whenever no call is in flight, a key that is in tier 1 and in tier 2
\* has in tier 2 the serialization of its tier-1 value.
C28_TiersAgree ==
    (\A r \in Callers : pc[r] \in {"idle", "done"}) =>
        \A k \in DOMAIN l1_cache \cap DOMAIN redis :
            redis[k].type = "string" => redis[k].val = JsonDumps(l1_cache[k])

----------------------------------------------------------------------------
(* C29 *)

\* C29: when get(key, query_fn, semantic_key) has ended with the error of
\* query_fn, it had missed every tier and called query_fn once, tier 1 is as it
\* was when get was called and does not hold key, and the key space holds
\* nothing it did not hold then (no tier-2 entry for key, no new or changed
\* tier-3 record): every entry is as it was, or its expiry has come.
C29_ComputeErrorWritesNothing ==
    \A p \in Callers :
        (pc[p] = "done" /\ frame[p].op = "get" /\ ret[p].exc = QueryFnError) =>
            LET f == frame[p]
            IN  /\ f.ncompute = 1
                /\ l1_cache = f.before_l1
                /\ f.key \notin DOMAIN l1_cache
                /\ f.key \notin DOMAIN redis
                /\ DOMAIN redis \subseteq DOMAIN f.before_redis
                /\ \A k \in DOMAIN f.before_redis :
                        KeptOrExpired(f.before_redis, redis, k)

\* a get with a semantic key went through tier 3 against a store holding a
\* record, missed, and ended with the error of query_fn
C29_Witness ==
    \E p \in Callers :
        /\ pc[p] = "done" /\ frame[p].op = "get" /\ ret[p].exc = QueryFnError
        /\ "L3" \in frame[p].tiers
        /\ \E k \in DOMAIN redis : IsRecord(redis, k)

----------------------------------------------------------------------------
(* C30 *)

\* C30: when get misses tiers 1 and 2 and the best record get_similar finds
\* holds a falsy value (here {}), get returns that value without calling
\* query_fn and has written it under key to tier 1 and tier 2.
C30_FalsyHitHonoured ==
    \A p \in Callers :
        (/\ Done(p, "get") /\ "L3" \in frame[p].tiers
         /\ frame[p].best_match # None /\ ~Truthy(frame[p].best_match)) =>
            LET f == frame[p]
            IN  /\ f.ncompute = 0
                /\ ret[p] = Returns(f.best_match)
                /\ f.key \in DOMAIN l1_cache /\ l1_cache[f.key] = f.best_match
                /\ f.key \in DOMAIN redis
                /\ redis[f.key].type = "string"
                /\ redis[f.key].val = JsonDumps(f.best_match)

====
